---- MODULE Spec2Model ----
(***************************************************************************)
(* Model of the mhl command line tool (mhl/commands.py): the seal, check   *)
(* and record commands working on a file tree and its ASC MHL history.     *)
(*                                                                         *)
(* The commands are translated from mhl/commands.py.  The collaborators    *)
(* they import (history, generator session, hasher, traversal, logger)     *)
(* are modelled from their specified interfaces.                           *)
(*                                                                         *)
(* Paths are sequences of names.  A hash value is modelled as an ideal     *)
(* digest: the sequence of tokens that was fed to the algorithm, headed by *)
(* the name of the algorithm.  File size and modification date are carried *)
(* by the code as payload only and are left out.                           *)
(***************************************************************************)
EXTENDS Integers, Sequences, FiniteSets, TLC

\* ------------------------------------------------------------------------
\* Bounds
\* ------------------------------------------------------------------------
MaxRuns == 2
MaxMutations == 1
\* commands and changes of the tree together
MaxOperations == 3

\* ------------------------------------------------------------------------
\* The file tree universe
\* ------------------------------------------------------------------------
RootPath == <<"root">>

Files == { <<"Stuff">>, <<"A", "A1">>, <<"A", "A2">> }

Dirs == { <<"A">>, <<"E">>, <<"E", "EA">> }

\* all names of the universe in lexicographic order
NameOrder == <<"A", "A1", "A2", "E", "EA", "Stuff">>

Contents == {"x", "y"}

ascmhl_supported_hashformats == {"xxh64", "md5"}

AbsPath(rel) == RootPath \o rel

get_relative_file_path(file_path) ==
    SubSeq(file_path, Len(RootPath) + 1, Len(file_path))

Parent(rel) == SubSeq(rel, 1, Len(rel) - 1)

\* a file whose permissions forbid reading it is still listed by its folder
IsFileOnDisk(d, rel) == rel \in Files /\ d[rel] \in Contents \cup {"unreadable"}

IsReadable(d, rel) == d[rel] \in Contents

\* a folder that holds a history of its own is a folder like any other
IsDirOnDisk(d, rel) == rel = <<>> \/ (rel \in Dirs /\ d[rel] \in {"dir", "nested"})

IsNestedHistoryRoot(d, rel) == rel \in Dirs /\ d[rel] = "nested"

ExistsOnDisk(d, rel) == IsFileOnDisk(d, rel) \/ IsDirOnDisk(d, rel)

\* the tree the test scenarios start from; A/A2 is added later
InitialDisk ==
    [p \in Files \cup Dirs |->
        IF p \in Dirs THEN "dir" ELSE IF p = <<"A", "A2">> THEN "absent" ELSE "x"]

\* ------------------------------------------------------------------------
\* Hasher
\* ------------------------------------------------------------------------
create_filehash(d, hash_format, file_path) ==
    <<hash_format, d[get_relative_file_path(file_path)]>>

\* create_filehash opens the file: on an unreadable file it raises instead
\* of returning a digest
create_filehash_raises(d, file_path) ==
    IF IsReadable(d, get_relative_file_path(file_path)) THEN "none" ELSE "IoFailure"

DirectoryHashContext(hash_format) == [hash_format |-> hash_format, fed |-> <<>>]

append_hash(ctx, hash_string, item_name) ==
    [ctx EXCEPT !.fed = @ \o hash_string \o <<item_name>>]

final_hash_str(ctx) == <<ctx.hash_format>> \o ctx.fed

\* ------------------------------------------------------------------------
\* Traversal
\* ------------------------------------------------------------------------
RECURSIVE ChildrenFrom(_, _, _)
ChildrenFrom(d, top, i) ==
    IF i > Len(NameOrder) THEN <<>>
    ELSE LET p == top \o <<NameOrder[i]>>
         IN (IF ExistsOnDisk(d, p)
               THEN << [item_name |-> NameOrder[i], is_dir |-> IsDirOnDisk(d, p)] >>
               ELSE <<>>) \o ChildrenFrom(d, top, i + 1)

RECURSIVE post_order_lexicographic(_, _)
RECURSIVE SubtreesFrom(_, _, _)
SubtreesFrom(d, top, i) ==
    IF i > Len(NameOrder) THEN <<>>
    ELSE LET p == top \o <<NameOrder[i]>>
         IN (IF p \in Dirs /\ IsDirOnDisk(d, p) /\ ~IsNestedHistoryRoot(d, p)
               THEN post_order_lexicographic(d, p)
               ELSE <<>>) \o SubtreesFrom(d, top, i + 1)

post_order_lexicographic(d, top) ==
    SubtreesFrom(d, top, 1)
      \o << [folder_path |-> AbsPath(top), children |-> ChildrenFrom(d, top, 1)] >>

\* ------------------------------------------------------------------------
\* History store
\* ------------------------------------------------------------------------
NoEntry == [hash_format |-> "none", hash_string |-> <<>>]

MHLMediaHash(path, is_directory) ==
    [path |-> path, is_directory |-> is_directory, hash_entries |-> <<>>]

RECURSIVE EntriesInList(_, _, _)
EntriesInList(media_hashes, path, i) ==
    IF i > Len(media_hashes) THEN <<>>
    ELSE (IF media_hashes[i].path = path THEN media_hashes[i].hash_entries ELSE <<>>)
           \o EntriesInList(media_hashes, path, i + 1)

\* the hash entries recorded for a path, oldest generation first
RECURSIVE EntriesFor(_, _, _)
EntriesFor(hash_lists, path, g) ==
    IF g > Len(hash_lists) THEN <<>>
    ELSE EntriesInList(hash_lists[g].media_hashes, path, 1)
           \o EntriesFor(hash_lists, path, g + 1)

find_original_hash_entry_for_path(hash_lists, path) ==
    LET es == EntriesFor(hash_lists, path, 1)
    IN IF Len(es) = 0 THEN NoEntry ELSE es[1]

find_first_hash_entry_for_path(hash_lists, path, hash_format) ==
    LET es == SelectSeq(EntriesFor(hash_lists, path, 1),
                        LAMBDA e : e.hash_format = hash_format)
    IN IF Len(es) = 0 THEN NoEntry ELSE es[1]

RECURSIVE FormatsOf(_, _, _)
FormatsOf(es, i, seen) ==
    IF i > Len(es) THEN <<>>
    ELSE IF es[i].hash_format \in seen THEN FormatsOf(es, i + 1, seen)
    ELSE <<es[i].hash_format>> \o FormatsOf(es, i + 1, seen \cup {es[i].hash_format})

find_existing_hash_formats_for_path(hash_lists, path) ==
    FormatsOf(EntriesFor(hash_lists, path, 1), 1, {})

RecordedPaths(hash_list) ==
    { hash_list.media_hashes[i].path : i \in 1..Len(hash_list.media_hashes) }

set_of_file_paths(hash_lists) ==
    UNION { { AbsPath(p) : p \in RecordedPaths(hash_lists[g]) } : g \in 1..Len(hash_lists) }

\* ------------------------------------------------------------------------
\* Generation session
\* ------------------------------------------------------------------------
MHLGenerationCreationSession == <<>>

HasMediaHash(session, path) == \E i \in 1..Len(session) : session[i].path = path

find_or_create_media_hash_for_path(session, path, is_directory) ==
    IF HasMediaHash(session, path) THEN session
    ELSE Append(session, MHLMediaHash(path, is_directory))

AppendEntry(session, path, entry) ==
    [i \in 1..Len(session) |->
        IF session[i].path = path
          THEN [session[i] EXCEPT !.hash_entries = Append(@, entry)]
          ELSE session[i]]

\* result: the new session and whether the observation agrees with the history
append_file_hash(hash_lists, session, file_path, hash_format, hash_string) ==
    LET relative_path == get_relative_file_path(file_path)
        prior == find_first_hash_entry_for_path(hash_lists, relative_path, hash_format)
        entry == [hash_format |-> hash_format, hash_string |-> hash_string]
    IN [session |-> AppendEntry(find_or_create_media_hash_for_path(session, relative_path, FALSE),
                                relative_path, entry),
        success |-> (prior = NoEntry \/ prior.hash_string = hash_string)]

commit(hash_lists, root_history, session, creator_info) ==
    Append(hash_lists,
           [generation_number |-> Len(root_history) + 1,
            tool |-> creator_info.tool,
            process |-> creator_info.process,
            root_media_hash |->
                [creator_info.root_media_hash EXCEPT
                    !.hash_entries = EntriesInList(session, <<>>, 1)],
            media_hashes |-> session])

\* ------------------------------------------------------------------------
\* commands.py : helpers
\* ------------------------------------------------------------------------
\* variant: nothing is committed for a session without observation
commit_session_SkipsEmpty(hash_lists, root_history, session) ==
    IF session = <<>> THEN hash_lists
    ELSE commit(hash_lists, root_history, session,
                [root_media_hash |-> [path |-> RootPath, hash_entries |-> <<>>],
                 tool |-> "seal", process |-> "in-place"])

commit_session(hash_lists, root_history, session) ==
    LET root_media_hash == [path |-> RootPath, hash_entries |-> <<>>]
        creator_info == [root_media_hash |-> root_media_hash,
                         tool |-> "seal",
                         process |-> "in-place"]
    IN commit(hash_lists, root_history, session, creator_info)

\* variant: after a failed verification in the existing format the
\* requested-format observation is not appended
seal_file_path_StopsAfterFailure(d, existing, file_path, fmt, session) ==
    LET relative_path == get_relative_file_path(file_path)
        existing_hash_formats == find_existing_hash_formats_for_path(existing, relative_path)
        cross == Len(existing_hash_formats) > 0
                   /\ \A i \in 1..Len(existing_hash_formats) : existing_hash_formats[i] # fmt
        existing_hash_format == existing_hash_formats[1]
        first == IF cross
                   THEN append_file_hash(existing, session, file_path, existing_hash_format,
                                         create_filehash(d, existing_hash_format, file_path))
                   ELSE [session |-> session, success |-> TRUE]
        current_format_hash == create_filehash(d, fmt, file_path)
        second == IF first.success
                    THEN append_file_hash(existing, first.session, file_path, fmt,
                                          current_format_hash)
                    ELSE first
    IN IF create_filehash_raises(d, file_path) # "none"
         THEN [hash_string |-> <<>>,
               success |-> FALSE,
               session |-> session,
               hashed |-> {<<(IF cross THEN existing_hash_format ELSE fmt), file_path>>},
               error |-> create_filehash_raises(d, file_path)]
       ELSE
       [hash_string |-> current_format_hash,
        success |-> (first.success /\ second.success),
        session |-> second.session,
        hashed |-> (IF cross THEN {<<existing_hash_format, file_path>>} ELSE {})
                      \cup {<<fmt, file_path>>},
        error |-> "none"]

\* variant: the verdict of the requested-format append is dropped
seal_file_path_FirstVerdictOnly(d, existing, file_path, fmt, session) ==
    LET relative_path == get_relative_file_path(file_path)
        existing_hash_formats == find_existing_hash_formats_for_path(existing, relative_path)
        cross == Len(existing_hash_formats) > 0
                   /\ \A i \in 1..Len(existing_hash_formats) : existing_hash_formats[i] # fmt
        existing_hash_format == existing_hash_formats[1]
        first == IF cross
                   THEN append_file_hash(existing, session, file_path, existing_hash_format,
                                         create_filehash(d, existing_hash_format, file_path))
                   ELSE [session |-> session, success |-> TRUE]
        current_format_hash == create_filehash(d, fmt, file_path)
        second == append_file_hash(existing, first.session, file_path, fmt, current_format_hash)
    IN IF create_filehash_raises(d, file_path) # "none"
         THEN [hash_string |-> <<>>,
               success |-> FALSE,
               session |-> session,
               hashed |-> {<<(IF cross THEN existing_hash_format ELSE fmt), file_path>>},
               error |-> create_filehash_raises(d, file_path)]
       ELSE
       [hash_string |-> current_format_hash,
        success |-> first.success,
        session |-> second.session,
        hashed |-> (IF cross THEN {<<existing_hash_format, file_path>>} ELSE {})
                      \cup {<<fmt, file_path>>},
        error |-> "none"]

\* variant: a file that has an entry in the history counts as failed
seal_file_path_NewFilesOnly(d, existing, file_path, fmt, session) ==
    LET relative_path == get_relative_file_path(file_path)
        existing_hash_formats == find_existing_hash_formats_for_path(existing, relative_path)
        cross == Len(existing_hash_formats) > 0
                   /\ \A i \in 1..Len(existing_hash_formats) : existing_hash_formats[i] # fmt
        existing_hash_format == existing_hash_formats[1]
        first == IF cross
                   THEN append_file_hash(existing, session, file_path, existing_hash_format,
                                         create_filehash(d, existing_hash_format, file_path))
                   ELSE [session |-> session, success |-> TRUE]
        current_format_hash == create_filehash(d, fmt, file_path)
        second == append_file_hash(existing, first.session, file_path, fmt, current_format_hash)
    IN IF create_filehash_raises(d, file_path) # "none"
         THEN [hash_string |-> <<>>,
               success |-> FALSE,
               session |-> session,
               hashed |-> {<<(IF cross THEN existing_hash_format ELSE fmt), file_path>>},
               error |-> create_filehash_raises(d, file_path)]
       ELSE
       [hash_string |-> current_format_hash,
        success |-> (first.success /\ second.success /\ Len(existing_hash_formats) = 0),
        session |-> second.session,
        hashed |-> (IF cross THEN {<<existing_hash_format, file_path>>} ELSE {})
                      \cup {<<fmt, file_path>>},
        error |-> "none"]

\* result: the hash in the requested format, the verdict, the new session,
\* the (format, path) pairs handed to create_filehash, and the exception that
\* left the function, if any (no call of create_filehash is guarded)
seal_file_path(d, existing, file_path, fmt, session) ==
    LET relative_path == get_relative_file_path(file_path)
        existing_hash_formats == find_existing_hash_formats_for_path(existing, relative_path)
        cross == Len(existing_hash_formats) > 0
                   /\ \A i \in 1..Len(existing_hash_formats) : existing_hash_formats[i] # fmt
        existing_hash_format == existing_hash_formats[1]
        first == IF cross
                   THEN append_file_hash(existing, session, file_path, existing_hash_format,
                                         create_filehash(d, existing_hash_format, file_path))
                   ELSE [session |-> session, success |-> TRUE]
        current_format_hash == create_filehash(d, fmt, file_path)
        second == append_file_hash(existing, first.session, file_path, fmt, current_format_hash)
    IN IF create_filehash_raises(d, file_path) # "none"
         THEN [hash_string |-> <<>>,
               success |-> FALSE,
               session |-> session,
               hashed |-> {<<(IF cross THEN existing_hash_format ELSE fmt), file_path>>},
               error |-> create_filehash_raises(d, file_path)]
       ELSE
       [hash_string |-> current_format_hash,
        success |-> (first.success /\ second.success),
        session |-> second.session,
        hashed |-> (IF cross THEN {<<existing_hash_format, file_path>>} ELSE {})
                      \cup {<<fmt, file_path>>},
        error |-> "none"]

test_for_missing_files(paths_not_found) ==
    IF Cardinality(paths_not_found) > 0
      THEN [logged |-> paths_not_found, outcome |-> "CompletenessCheckFailed"]
      ELSE [logged |-> {}, outcome |-> "success"]

\* exit codes of the logger's exceptions
ExitCode(o) ==
    CASE o = "success" -> 0
      [] o = "VerificationFailed" -> 12
      [] o = "CompletenessCheckFailed" -> 15
      [] o = "NewFilesFound" -> 30
      [] o = "NoMHLHistory" -> 20
      [] OTHER -> 1

EmptyMapping == [p \in {} |-> <<>>]

MappingPop(m, k) == [p \in DOMAIN m \ {k} |-> m[p]]

MappingSet(m, k, v) == [p \in DOMAIN m \cup {k} |-> IF p = k THEN v ELSE m[p]]

\* ------------------------------------------------------------------------
\* State
\* ------------------------------------------------------------------------
VARIABLES
    disk,                      \* the file tree below the root path
    history,                   \* the persisted generations (hash_lists)
    pc,                        \* position of the running command
    cmd,                       \* "seal", "check", "record" or "none"
    hash_format,               \* option -h
    directory_hashes,          \* option -d
    paths,                     \* record: the PATHS argument
    existing_history,          \* the history as loaded by the command
    not_found_paths,
    session,
    num_failed_verifications,
    num_new_files,
    dir_hash_mappings,
    traversal,                 \* what post_order_lexicographic still has to yield
    remaining_paths,           \* record: the given paths not yet processed
    outcome,                   \* how the command ended
    logged_missing,            \* the paths listed by test_for_missing_files
    hashed,                    \* the (format, path) pairs given to create_filehash
    failed_paths,              \* the files whose per-file seal returned false
    committed,                 \* whether the running command has committed
    computed_dir_hashes,       \* every directory hash the running seal has finalized
    prev_seal,                 \* the last seal run that returned, and the paths changed since
    runs,
    mutations

params == <<cmd, hash_format, directory_hashes, paths>>

locals == <<existing_history, not_found_paths, session, num_failed_verifications,
            num_new_files, dir_hash_mappings, traversal, remaining_paths, outcome,
            logged_missing, hashed, failed_paths, committed, computed_dir_hashes>>

vars == <<disk, history, pc, params, locals, prev_seal, runs, mutations>>

NoSeal ==
    [outcome |-> "none", hash_format |-> "none", directory_hashes |-> FALSE,
     disk |-> InitialDisk, generation |-> 0, dir_hashes |-> EmptyMapping, touched |-> {}]

\* a generation as a sealing tool wrote it for the tree at the root path, when
\* the file Stuff had the given content
RecordedGeneration(with_directories, stuff) ==
    [generation_number |-> 1,
     tool |-> "seal",
     process |-> "in-place",
     root_media_hash |-> [path |-> RootPath, hash_entries |-> <<>>],
     media_hashes |->
        (IF with_directories THEN << MHLMediaHash(<<"A">>, TRUE) >> ELSE <<>>)
        \o << [path |-> <<"A", "A1">>, is_directory |-> FALSE,
               hash_entries |-> << [hash_format |-> "xxh64", hash_string |-> <<"xxh64", "x">>] >>] >>
        \o (IF with_directories THEN << MHLMediaHash(<<"E">>, TRUE) >> ELSE <<>>)
        \o << [path |-> <<"Stuff">>, is_directory |-> FALSE,
               hash_entries |-> << [hash_format |-> "xxh64", hash_string |-> <<"xxh64", stuff>>] >>] >>]

\* the histories a command may find at the root path: none, one recorded for
\* the tree as it is, with directory entries, and one recorded before the
\* file Stuff was altered
InitialHistories ==
    { <<>>,
      << RecordedGeneration(TRUE, "x") >>,
      << RecordedGeneration(FALSE, "y") >> }

IdleLocals ==
    /\ existing_history = <<>>
    /\ not_found_paths = {}
    /\ session = <<>>
    /\ num_failed_verifications = 0
    /\ num_new_files = 0
    /\ dir_hash_mappings = EmptyMapping
    /\ traversal = <<>>
    /\ remaining_paths = <<>>
    /\ outcome = "none"
    /\ logged_missing = {}
    /\ hashed = {}
    /\ failed_paths = {}
    /\ committed = FALSE
    /\ computed_dir_hashes = EmptyMapping

Init ==
    /\ disk = InitialDisk
    /\ history \in InitialHistories
    /\ pc = "idle"
    /\ cmd = "none"
    /\ hash_format = "xxh64"
    /\ directory_hashes = FALSE
    /\ paths = <<>>
    /\ IdleLocals
    /\ prev_seal = NoSeal
    /\ runs = 0
    /\ mutations = 0

\* ------------------------------------------------------------------------
\* The file tree changes between two commands
\* ------------------------------------------------------------------------
Idle == pc = "idle"

MayRun == Idle /\ runs < MaxRuns /\ runs + mutations < MaxOperations

\* a change of the tree that no command is left to see is not explored
MayMutate == MayRun /\ mutations < MaxMutations /\ runs + mutations + 1 < MaxOperations

Other(c) == CHOOSE c2 \in Contents : c2 # c

HasChildOnDisk(d, dir) ==
    \E p \in Files \cup Dirs : Len(p) > 0 /\ Parent(p) = dir /\ ExistsOnDisk(d, p)

\* open(path, "a").write("!!")
AlterFile(f) ==
    /\ MayMutate
    /\ IsFileOnDisk(disk, f)
    /\ IsReadable(disk, f)
    /\ disk' = [disk EXCEPT ![f] = Other(@)]
    /\ mutations' = mutations + 1
    /\ prev_seal' = [prev_seal EXCEPT !.touched = @ \cup {f}]
    /\ UNCHANGED <<history, pc, params, locals, runs>>

\* the files whose permissions are taken away
UnreadableCandidates == { <<"A", "A1">> }

\* os.chmod(path, 0)
MakeUnreadable(f) ==
    /\ MayMutate
    /\ f \in UnreadableCandidates
    /\ IsFileOnDisk(disk, f)
    /\ IsReadable(disk, f)
    /\ disk' = [disk EXCEPT ![f] = "unreadable"]
    /\ mutations' = mutations + 1
    /\ prev_seal' = [prev_seal EXCEPT !.touched = @ \cup {f}]
    /\ UNCHANGED <<history, pc, params, locals, runs>>

\* os.remove(path)
RemoveFile(f) ==
    /\ MayMutate
    /\ IsFileOnDisk(disk, f)
    /\ disk' = [disk EXCEPT ![f] = "absent"]
    /\ mutations' = mutations + 1
    /\ prev_seal' = [prev_seal EXCEPT !.touched = @ \cup {f}]
    /\ UNCHANGED <<history, pc, params, locals, runs>>

\* the renamings tried: a file gets a new name in its folder
RenamePairs == { << <<"A", "A1">>, <<"A", "A2">> >> }

\* os.rename(old, new)
RenameFile(old, new) ==
    /\ MayMutate
    /\ <<old, new>> \in RenamePairs
    /\ IsFileOnDisk(disk, old)
    /\ disk[new] = "absent"
    /\ disk' = [disk EXCEPT ![old] = "absent", ![new] = disk[old]]
    /\ mutations' = mutations + 1
    /\ prev_seal' = [prev_seal EXCEPT !.touched = @ \cup {old, new}]
    /\ UNCHANGED <<history, pc, params, locals, runs>>

\* the folders that are given a history of their own
NestedCandidates == { <<"E", "EA">> }

\* a history is created inside a folder (seal run with that folder as root)
MakeNestedHistory(dir) ==
    /\ MayMutate
    /\ dir \in NestedCandidates
    /\ IsDirOnDisk(disk, dir)
    /\ ~IsNestedHistoryRoot(disk, dir)
    /\ disk' = [disk EXCEPT ![dir] = "nested"]
    /\ mutations' = mutations + 1
    /\ prev_seal' = [prev_seal EXCEPT !.touched = @ \cup {dir}]
    /\ UNCHANGED <<history, pc, params, locals, runs>>

\* os.removedirs(path) of an empty folder
RemoveDir(dir) ==
    /\ MayMutate
    /\ dir \in Dirs
    /\ IsDirOnDisk(disk, dir)
    /\ ~IsNestedHistoryRoot(disk, dir)
    /\ ~HasChildOnDisk(disk, dir)
    /\ disk' = [disk EXCEPT ![dir] = "absent"]
    /\ mutations' = mutations + 1
    /\ prev_seal' = [prev_seal EXCEPT !.touched = @ \cup {dir}]
    /\ UNCHANGED <<history, pc, params, locals, runs>>

\* fs.create_file(path, contents=c), which creates the missing folders
CreateFile(f, c) ==
    /\ MayMutate
    /\ f \in Files
    /\ disk[f] = "absent"
    /\ disk' = [p \in DOMAIN disk |->
                  IF p = f THEN c
                  ELSE IF p \in Dirs /\ Len(p) < Len(f) /\ SubSeq(f, 1, Len(p)) = p THEN "dir"
                  ELSE disk[p]]
    /\ mutations' = mutations + 1
    /\ prev_seal' = [prev_seal EXCEPT !.touched = @ \cup {f}]
    /\ UNCHANGED <<history, pc, params, locals, runs>>

\* ------------------------------------------------------------------------
\* seal
\* ------------------------------------------------------------------------
\* the loop over the children of one folder (commands.py, lines 63-75)
RECURSIVE SealChildren(_, _, _, _, _, _, _)
SealChildren(d, existing, fmt, folder_path, children, i, st) ==
    IF i > Len(children) \/ st.error # "none" THEN st
    ELSE
      LET item_name == children[i].item_name
          file_path == folder_path \o <<item_name>>
      IN IF children[i].is_dir
           THEN IF ~st.has_context
                  THEN SealChildren(d, existing, fmt, folder_path, children, i + 1, st)
                ELSE IF file_path \notin DOMAIN st.dir_hash_mappings
                  THEN [st EXCEPT !.error = "KeyError"]
                ELSE SealChildren(d, existing, fmt, folder_path, children, i + 1,
                        [st EXCEPT !.dir_hash_mappings = MappingPop(@, file_path),
                                   !.dir_hash_context =
                                       append_hash(@, st.dir_hash_mappings[file_path], item_name)])
           ELSE
             LET r == seal_file_path(d, existing, file_path, fmt, st.session)
             IN IF r.error # "none"
                  THEN [st EXCEPT !.error = r.error, !.hashed = @ \cup r.hashed]
                ELSE SealChildren(d, existing, fmt, folder_path, children, i + 1,
                   [st EXCEPT !.session = r.session,
                              !.num_failed_verifications = IF r.success THEN @ ELSE @ + 1,
                              !.failed_paths = IF r.success THEN @ ELSE @ \cup {file_path},
                              !.not_found_paths = @ \ {file_path},
                              !.hashed = @ \cup r.hashed,
                              !.dir_hash_context =
                                  IF st.has_context
                                    THEN append_hash(@, r.hash_string, item_name)
                                    ELSE @])

\* variant: the generation file is created when the session is opened
SealStart_SavesEmptyGeneration(fmt, dh) ==
    /\ MayRun
    /\ runs' = runs + 1
    /\ pc' = "traverse"
    /\ cmd' = "seal"
    /\ hash_format' = fmt
    /\ directory_hashes' = dh
    /\ existing_history' = history
    /\ history' = commit_session(history, history, MHLGenerationCreationSession)
    /\ not_found_paths' = set_of_file_paths(history)
    /\ session' = MHLGenerationCreationSession
    /\ num_failed_verifications' = 0
    /\ dir_hash_mappings' = EmptyMapping
    /\ traversal' = post_order_lexicographic(disk, <<>>)
    /\ UNCHANGED <<disk, paths, num_new_files, remaining_paths, outcome,
                   logged_missing, hashed, failed_paths, committed, prev_seal, mutations>>
    /\ UNCHANGED computed_dir_hashes

SealStart(fmt, dh) ==
    /\ MayRun
    /\ runs' = runs + 1
    /\ pc' = "traverse"
    /\ cmd' = "seal"
    /\ hash_format' = fmt
    /\ directory_hashes' = dh
    /\ existing_history' = history
    /\ not_found_paths' = set_of_file_paths(history)
    /\ session' = MHLGenerationCreationSession
    /\ num_failed_verifications' = 0
    /\ dir_hash_mappings' = EmptyMapping
    /\ traversal' = post_order_lexicographic(disk, <<>>)
    /\ UNCHANGED <<disk, history, paths, num_new_files, remaining_paths, outcome,
                   logged_missing, hashed, failed_paths, committed, prev_seal, mutations>>
    /\ UNCHANGED computed_dir_hashes

\* variant: the hash of a folder is finalized from a context its children
\* were not fed into
SealVisitFolder_ContextNotFed ==
    /\ pc = "traverse"
    /\ cmd = "seal"
    /\ traversal # <<>>
    /\ LET folder_path == Head(traversal).folder_path
           st0 == [session |-> session,
                   num_failed_verifications |-> num_failed_verifications,
                   failed_paths |-> failed_paths,
                   not_found_paths |-> not_found_paths,
                   hashed |-> hashed,
                   dir_hash_mappings |-> dir_hash_mappings,
                   has_context |-> directory_hashes,
                   dir_hash_context |-> DirectoryHashContext(hash_format),
                   error |-> "none"]
           st == SealChildren(disk, existing_history, hash_format, folder_path,
                              Head(traversal).children, 1, st0)
       IN /\ session' = st.session
          /\ num_failed_verifications' = st.num_failed_verifications
          /\ failed_paths' = st.failed_paths
          /\ not_found_paths' = st.not_found_paths
          /\ hashed' = st.hashed
          /\ IF st.error # "none"
               THEN /\ outcome' = st.error
                    /\ pc' = "done"
                    /\ dir_hash_mappings' = st.dir_hash_mappings
                    /\ UNCHANGED <<traversal, computed_dir_hashes>>
               ELSE /\ dir_hash_mappings' =
                          IF directory_hashes
                            THEN MappingSet(st.dir_hash_mappings, folder_path,
                                            final_hash_str(st0.dir_hash_context))
                            ELSE st.dir_hash_mappings
                    /\ computed_dir_hashes' =
                          IF directory_hashes
                            THEN MappingSet(computed_dir_hashes, folder_path,
                                            final_hash_str(st0.dir_hash_context))
                            ELSE computed_dir_hashes
                    /\ traversal' = Tail(traversal)
                    /\ UNCHANGED <<pc, outcome>>
    /\ UNCHANGED <<disk, history, params, existing_history, num_new_files,
                   remaining_paths, logged_missing, committed, prev_seal, runs, mutations>>

\* variant: the hashes of the children are read without being removed
SealVisitFolder_KeepsChildEntries ==
    /\ pc = "traverse"
    /\ cmd = "seal"
    /\ traversal # <<>>
    /\ LET folder_path == Head(traversal).folder_path
           st0 == [session |-> session,
                   num_failed_verifications |-> num_failed_verifications,
                   failed_paths |-> failed_paths,
                   not_found_paths |-> not_found_paths,
                   hashed |-> hashed,
                   dir_hash_mappings |-> dir_hash_mappings,
                   has_context |-> directory_hashes,
                   dir_hash_context |-> DirectoryHashContext(hash_format),
                   error |-> "none"]
           st == SealChildren(disk, existing_history, hash_format, folder_path,
                              Head(traversal).children, 1, st0)
       IN /\ session' = st.session
          /\ num_failed_verifications' = st.num_failed_verifications
          /\ failed_paths' = st.failed_paths
          /\ not_found_paths' = st.not_found_paths
          /\ hashed' = st.hashed
          /\ IF st.error # "none"
               THEN /\ outcome' = st.error
                    /\ pc' = "done"
                    /\ dir_hash_mappings' = st.dir_hash_mappings
                    /\ UNCHANGED <<traversal, computed_dir_hashes>>
               ELSE /\ dir_hash_mappings' =
                          IF directory_hashes
                            THEN MappingSet(dir_hash_mappings, folder_path,
                                            final_hash_str(st.dir_hash_context))
                            ELSE st.dir_hash_mappings
                    /\ computed_dir_hashes' =
                          IF directory_hashes
                            THEN MappingSet(computed_dir_hashes, folder_path,
                                            final_hash_str(st.dir_hash_context))
                            ELSE computed_dir_hashes
                    /\ traversal' = Tail(traversal)
                    /\ UNCHANGED <<pc, outcome>>
    /\ UNCHANGED <<disk, history, params, existing_history, num_new_files,
                   remaining_paths, logged_missing, committed, prev_seal, runs, mutations>>

SealVisitFolder ==
    /\ pc = "traverse"
    /\ cmd = "seal"
    /\ traversal # <<>>
    /\ LET folder_path == Head(traversal).folder_path
           st0 == [session |-> session,
                   num_failed_verifications |-> num_failed_verifications,
                   failed_paths |-> failed_paths,
                   not_found_paths |-> not_found_paths,
                   hashed |-> hashed,
                   dir_hash_mappings |-> dir_hash_mappings,
                   has_context |-> directory_hashes,
                   dir_hash_context |-> DirectoryHashContext(hash_format),
                   error |-> "none"]
           st == SealChildren(disk, existing_history, hash_format, folder_path,
                              Head(traversal).children, 1, st0)
       IN /\ session' = st.session
          /\ num_failed_verifications' = st.num_failed_verifications
          /\ failed_paths' = st.failed_paths
          /\ not_found_paths' = st.not_found_paths
          /\ hashed' = st.hashed
          /\ IF st.error # "none"
               THEN /\ outcome' = st.error
                    /\ pc' = "done"
                    /\ dir_hash_mappings' = st.dir_hash_mappings
                    /\ UNCHANGED <<traversal, computed_dir_hashes>>
               ELSE /\ dir_hash_mappings' =
                          IF directory_hashes
                            THEN MappingSet(st.dir_hash_mappings, folder_path,
                                            final_hash_str(st.dir_hash_context))
                            ELSE st.dir_hash_mappings
                    /\ computed_dir_hashes' =
                          IF directory_hashes
                            THEN MappingSet(computed_dir_hashes, folder_path,
                                            final_hash_str(st.dir_hash_context))
                            ELSE computed_dir_hashes
                    /\ traversal' = Tail(traversal)
                    /\ UNCHANGED <<pc, outcome>>
    /\ UNCHANGED <<disk, history, params, existing_history, num_new_files,
                   remaining_paths, logged_missing, committed, prev_seal, runs, mutations>>

\* variant: the failures are raised before the commit
SealCommit_OnlyOnSuccess ==
    /\ pc = "traverse"
    /\ cmd = "seal"
    /\ traversal = <<>>
    /\ IF num_failed_verifications > 0 \/ not_found_paths # {}
         THEN UNCHANGED <<history, committed>>
         ELSE /\ history' = commit_session(history, existing_history, session)
              /\ committed' = TRUE
    /\ pc' = "finish"
    /\ UNCHANGED <<disk, params, existing_history, not_found_paths, session,
                   num_failed_verifications, num_new_files, dir_hash_mappings,
                   traversal, remaining_paths, outcome, logged_missing, hashed,
                   failed_paths, prev_seal, runs, mutations>>
    /\ UNCHANGED computed_dir_hashes

SealCommit ==
    /\ pc = "traverse"
    /\ cmd = "seal"
    /\ traversal = <<>>
    /\ history' = commit_session(history, existing_history, session)
    /\ committed' = TRUE
    /\ pc' = "finish"
    /\ UNCHANGED <<disk, params, existing_history, not_found_paths, session,
                   num_failed_verifications, num_new_files, dir_hash_mappings,
                   traversal, remaining_paths, outcome, logged_missing, hashed,
                   failed_paths, prev_seal, runs, mutations>>
    /\ UNCHANGED computed_dir_hashes

\* commands.py, lines 83-86
SealFinish ==
    /\ pc = "finish"
    /\ cmd = "seal"
    /\ IF num_failed_verifications > 0
         THEN /\ outcome' = "VerificationFailed"
              /\ UNCHANGED logged_missing
         ELSE /\ outcome' = test_for_missing_files(not_found_paths).outcome
              /\ logged_missing' = test_for_missing_files(not_found_paths).logged
    /\ pc' = "done"
    /\ UNCHANGED <<disk, history, params, existing_history, not_found_paths, session,
                   num_failed_verifications, num_new_files, dir_hash_mappings,
                   traversal, remaining_paths, hashed, failed_paths, committed,
                   prev_seal, runs, mutations>>
    /\ UNCHANGED computed_dir_hashes

\* the command returns to the shell
Return ==
    /\ pc = "done"
    /\ pc' = "idle"
    /\ prev_seal' = IF cmd = "seal"
                      THEN [outcome |-> outcome, hash_format |-> hash_format,
                            directory_hashes |-> directory_hashes, disk |-> disk,
                            generation |-> IF committed THEN Len(history) ELSE 0,
                            dir_hashes |-> computed_dir_hashes, touched |-> {}]
                      ELSE prev_seal
    /\ cmd' = "none"
    /\ hash_format' = "xxh64"
    /\ directory_hashes' = FALSE
    /\ paths' = <<>>
    /\ existing_history' = <<>>
    /\ not_found_paths' = {}
    /\ session' = <<>>
    /\ num_failed_verifications' = 0
    /\ num_new_files' = 0
    /\ dir_hash_mappings' = EmptyMapping
    /\ traversal' = <<>>
    /\ remaining_paths' = <<>>
    /\ outcome' = "none"
    /\ logged_missing' = {}
    /\ hashed' = {}
    /\ failed_paths' = {}
    /\ committed' = FALSE
    /\ computed_dir_hashes' = EmptyMapping
    /\ UNCHANGED <<disk, history, runs, mutations>>

\* ------------------------------------------------------------------------
\* check
\* ------------------------------------------------------------------------
\* the loop over the children of one folder (commands.py, lines 117-144)
RECURSIVE CheckChildren(_, _, _, _, _, _)
CheckChildren(d, existing, folder_path, children, i, st) ==
    IF i > Len(children) \/ st.error # "none" THEN st
    ELSE
      LET file_path == folder_path \o <<children[i].item_name>>
          relative_path == get_relative_file_path(file_path)
          original_hash_entry == find_original_hash_entry_for_path(existing, relative_path)
          current_hash == create_filehash(d, original_hash_entry.hash_format, file_path)
      IN IF children[i].is_dir
           THEN CheckChildren(d, existing, folder_path, children, i + 1, st)
         ELSE IF original_hash_entry = NoEntry
           THEN CheckChildren(d, existing, folder_path, children, i + 1,
                   [st EXCEPT !.num_new_files = @ + 1])
         ELSE IF create_filehash_raises(d, file_path) # "none"
           THEN [st EXCEPT !.hashed = @ \cup {<<original_hash_entry.hash_format, file_path>>},
                           !.error = create_filehash_raises(d, file_path)]
         ELSE CheckChildren(d, existing, folder_path, children, i + 1,
                   [st EXCEPT !.hashed = @ \cup {<<original_hash_entry.hash_format, file_path>>},
                              !.num_failed_verifications =
                                  IF original_hash_entry.hash_string = current_hash
                                    THEN @ ELSE @ + 1,
                              !.failed_paths =
                                  IF original_hash_entry.hash_string = current_hash
                                    THEN @ ELSE @ \cup {file_path},
                              !.not_found_paths = @ \ {file_path}])

\* variant: the test for an empty history is left out
CheckStart_NoHistoryTest ==
    /\ MayRun
    /\ runs' = runs + 1
    /\ cmd' = "check"
    /\ existing_history' = history
    /\ not_found_paths' = set_of_file_paths(history)
    /\ traversal' = post_order_lexicographic(disk, <<>>)
    /\ pc' = "traverse"
    /\ num_failed_verifications' = 0
    /\ num_new_files' = 0
    /\ UNCHANGED <<disk, history, hash_format, directory_hashes, paths, session,
                   dir_hash_mappings, remaining_paths, outcome, logged_missing, hashed,
                   failed_paths, committed, prev_seal, mutations>>
    /\ UNCHANGED computed_dir_hashes

CheckStart ==
    /\ MayRun
    /\ runs' = runs + 1
    /\ cmd' = "check"
    /\ existing_history' = history
    /\ IF Len(history) = 0
         THEN /\ outcome' = "NoMHLHistory"
              /\ pc' = "done"
              /\ UNCHANGED <<not_found_paths, traversal>>
         ELSE /\ not_found_paths' = set_of_file_paths(history)
              /\ traversal' = post_order_lexicographic(disk, <<>>)
              /\ pc' = "traverse"
              /\ UNCHANGED outcome
    /\ num_failed_verifications' = 0
    /\ num_new_files' = 0
    /\ UNCHANGED <<disk, history, hash_format, directory_hashes, paths, session,
                   dir_hash_mappings, remaining_paths, logged_missing, hashed,
                   failed_paths, committed, prev_seal, mutations>>
    /\ UNCHANGED computed_dir_hashes

CheckVisitFolder ==
    /\ pc = "traverse"
    /\ cmd = "check"
    /\ traversal # <<>>
    /\ LET st0 == [num_failed_verifications |-> num_failed_verifications,
                   num_new_files |-> num_new_files,
                   failed_paths |-> failed_paths,
                   not_found_paths |-> not_found_paths,
                   hashed |-> hashed,
                   error |-> "none"]
           st == CheckChildren(disk, existing_history, Head(traversal).folder_path,
                               Head(traversal).children, 1, st0)
       IN /\ num_failed_verifications' = st.num_failed_verifications
          /\ num_new_files' = st.num_new_files
          /\ failed_paths' = st.failed_paths
          /\ not_found_paths' = st.not_found_paths
          /\ hashed' = st.hashed
          /\ IF st.error # "none"
               THEN /\ outcome' = st.error
                    /\ pc' = "done"
                    /\ UNCHANGED traversal
               ELSE /\ traversal' = Tail(traversal)
                    /\ UNCHANGED <<pc, outcome>>
    /\ UNCHANGED <<disk, history, params, existing_history, session,
                   dir_hash_mappings, remaining_paths, logged_missing,
                   committed, prev_seal, runs, mutations>>
    /\ UNCHANGED computed_dir_hashes

\* variant: check commits its (empty) session like seal does
CheckFinish_Commits ==
    /\ pc = "traverse"
    /\ cmd = "check"
    /\ traversal = <<>>
    /\ history' = commit_session(history, existing_history, session)
    /\ committed' = TRUE
    /\ IF num_failed_verifications > 0
         THEN /\ outcome' = "VerificationFailed"
              /\ UNCHANGED logged_missing
         ELSE /\ logged_missing' = test_for_missing_files(not_found_paths).logged
              /\ outcome' =
                   IF test_for_missing_files(not_found_paths).outcome # "success"
                     THEN test_for_missing_files(not_found_paths).outcome
                   ELSE IF num_new_files > 0 THEN "NewFilesFound"
                   ELSE "success"
    /\ pc' = "done"
    /\ UNCHANGED <<disk, params, existing_history, not_found_paths, session,
                   num_failed_verifications, num_new_files, dir_hash_mappings,
                   traversal, remaining_paths, hashed, failed_paths,
                   prev_seal, runs, mutations>>
    /\ UNCHANGED computed_dir_hashes

\* variant: new files do not make the run fail
CheckFinish_IgnoresNewFiles ==
    /\ pc = "traverse"
    /\ cmd = "check"
    /\ traversal = <<>>
    /\ IF num_failed_verifications > 0
         THEN /\ outcome' = "VerificationFailed"
              /\ UNCHANGED logged_missing
         ELSE /\ logged_missing' = test_for_missing_files(not_found_paths).logged
              /\ outcome' = test_for_missing_files(not_found_paths).outcome
    /\ pc' = "done"
    /\ UNCHANGED <<disk, history, params, existing_history, not_found_paths, session,
                   num_failed_verifications, num_new_files, dir_hash_mappings,
                   traversal, remaining_paths, hashed, failed_paths, committed,
                   prev_seal, runs, mutations>>
    /\ UNCHANGED computed_dir_hashes

\* commands.py, lines 146-152
CheckFinish ==
    /\ pc = "traverse"
    /\ cmd = "check"
    /\ traversal = <<>>
    /\ IF num_failed_verifications > 0
         THEN /\ outcome' = "VerificationFailed"
              /\ UNCHANGED logged_missing
         ELSE /\ logged_missing' = test_for_missing_files(not_found_paths).logged
              /\ outcome' =
                   IF test_for_missing_files(not_found_paths).outcome # "success"
                     THEN test_for_missing_files(not_found_paths).outcome
                   ELSE IF num_new_files > 0 THEN "NewFilesFound"
                   ELSE "success"
    /\ pc' = "done"
    /\ UNCHANGED <<disk, history, params, existing_history, not_found_paths, session,
                   num_failed_verifications, num_new_files, dir_hash_mappings,
                   traversal, remaining_paths, hashed, failed_paths, committed,
                   prev_seal, runs, mutations>>
    /\ UNCHANGED computed_dir_hashes

\* ------------------------------------------------------------------------
\* record
\* ------------------------------------------------------------------------
RECURSIVE FilesOfTraversal(_)
FilesOfTraversal(trav) ==
    IF trav = <<>> THEN <<>>
    ELSE LET folder == Head(trav)
             files == SelectSeq(folder.children, LAMBDA c : ~c.is_dir)
         IN [i \in 1..Len(files) |-> folder.folder_path \o <<files[i].item_name>>]
              \o FilesOfTraversal(Tail(trav))

\* the per-file seal of each file of a list, in order (commands.py, lines 195-206)
RECURSIVE RecordFiles(_, _, _, _, _, _)
RecordFiles(d, existing, fmt, files, i, st) ==
    IF i > Len(files) \/ st.error # "none" THEN st
    ELSE LET r == seal_file_path(d, existing, files[i], fmt, st.session)
         IN IF r.error # "none"
              THEN [st EXCEPT !.error = r.error, !.hashed = @ \cup r.hashed]
            ELSE RecordFiles(d, existing, fmt, files, i + 1,
               [st EXCEPT !.session = r.session,
                          !.num_failed_verifications = IF r.success THEN @ ELSE @ + 1,
                          !.failed_paths = IF r.success THEN @ ELSE @ \cup {files[i]},
                          !.hashed = @ \cup r.hashed])

\* the PATHS arguments tried
RecordPathLists ==
    { << <<"A">> >>, << <<"Stuff">>, <<"A">> >> }

RecordStart(given, fmt) ==
    /\ MayRun
    /\ given \in RecordPathLists
    /\ \A i \in 1..Len(given) : ExistsOnDisk(disk, given[i])
    /\ runs' = runs + 1
    /\ pc' = "traverse"
    /\ cmd' = "record"
    /\ hash_format' = fmt
    /\ paths' = [i \in 1..Len(given) |-> AbsPath(given[i])]
    /\ remaining_paths' = [i \in 1..Len(given) |-> AbsPath(given[i])]
    /\ existing_history' = history
    /\ session' = MHLGenerationCreationSession
    /\ num_failed_verifications' = 0
    /\ UNCHANGED <<disk, history, directory_hashes, not_found_paths, num_new_files,
                   dir_hash_mappings, traversal, outcome, logged_missing, hashed,
                   failed_paths, committed, prev_seal, mutations>>
    /\ UNCHANGED computed_dir_hashes

RecordPath ==
    /\ pc = "traverse"
    /\ cmd = "record"
    /\ remaining_paths # <<>>
    /\ LET path == Head(remaining_paths)
           rel == get_relative_file_path(path)
           files == IF IsDirOnDisk(disk, rel)
                      THEN FilesOfTraversal(post_order_lexicographic(disk, rel))
                      ELSE <<path>>
           st0 == [session |-> session,
                   num_failed_verifications |-> num_failed_verifications,
                   failed_paths |-> failed_paths,
                   hashed |-> hashed,
                   error |-> "none"]
           st == RecordFiles(disk, existing_history, hash_format, files, 1, st0)
       IN /\ session' = st.session
          /\ num_failed_verifications' = st.num_failed_verifications
          /\ failed_paths' = st.failed_paths
          /\ hashed' = st.hashed
          /\ IF st.error # "none"
               THEN /\ outcome' = st.error
                    /\ pc' = "done"
                    /\ UNCHANGED remaining_paths
               ELSE /\ remaining_paths' = Tail(remaining_paths)
                    /\ UNCHANGED <<pc, outcome>>
    /\ UNCHANGED <<disk, history, params, existing_history, not_found_paths,
                   num_new_files, dir_hash_mappings, traversal,
                   logged_missing, committed, prev_seal, runs, mutations>>
    /\ UNCHANGED computed_dir_hashes

RecordCommit ==
    /\ pc = "traverse"
    /\ cmd = "record"
    /\ remaining_paths = <<>>
    /\ history' = commit_session(history, existing_history, session)
    /\ committed' = TRUE
    /\ pc' = "finish"
    /\ UNCHANGED <<disk, params, existing_history, not_found_paths, session,
                   num_failed_verifications, num_new_files, dir_hash_mappings,
                   traversal, remaining_paths, outcome, logged_missing, hashed,
                   failed_paths, prev_seal, runs, mutations>>
    /\ UNCHANGED computed_dir_hashes

\* commands.py, lines 210-211
RecordFinish ==
    /\ pc = "finish"
    /\ cmd = "record"
    /\ outcome' = IF num_failed_verifications > 0 THEN "VerificationFailed" ELSE "success"
    /\ pc' = "done"
    /\ UNCHANGED <<disk, history, params, existing_history, not_found_paths, session,
                   num_failed_verifications, num_new_files, dir_hash_mappings,
                   traversal, remaining_paths, logged_missing, hashed, failed_paths,
                   committed, prev_seal, runs, mutations>>
    /\ UNCHANGED computed_dir_hashes

\* ------------------------------------------------------------------------
\* Specification
\* ------------------------------------------------------------------------
Next ==
    \/ \E f \in Files : AlterFile(f)
    \/ \E f \in Files : RemoveFile(f)
    \/ \E f \in UnreadableCandidates : MakeUnreadable(f)
    \/ \E pair \in RenamePairs : RenameFile(pair[1], pair[2])
    \/ \E dir \in Dirs : RemoveDir(dir)
    \/ \E dir \in NestedCandidates : MakeNestedHistory(dir)
    \/ \E f \in Files : CreateFile(f, "x")
    \/ \E fmt \in ascmhl_supported_hashformats, dh \in BOOLEAN : SealStart(fmt, dh)
    \/ SealVisitFolder
    \/ SealCommit
    \/ SealFinish
    \/ CheckStart
    \/ CheckVisitFolder
    \/ CheckFinish
    \/ \E given \in RecordPathLists, fmt \in ascmhl_supported_hashformats :
          RecordStart(given, fmt)
    \/ RecordPath
    \/ RecordCommit
    \/ RecordFinish
    \/ Return

Spec == Init /\ [][Next]_vars

\* ------------------------------------------------------------------------
\* Vocabulary of the properties
\* ------------------------------------------------------------------------
\* a seal run that has ended (normally or by one of its exceptions)
\* the exceptions that leave a run in the middle of its traversal
Aborts == {"KeyError", "IoFailure"}

SealEnded == pc = "done" /\ cmd = "seal" /\ outcome \notin Aborts

CheckEnded == pc = "done" /\ cmd = "check" /\ outcome \notin Aborts \cup {"NoMHLHistory"}

FilesOnDisk == { AbsPath(f) : f \in { g \in Files : IsFileOnDisk(disk, g) } }

DirsOnDisk == { dir \in Dirs : IsDirOnDisk(disk, dir) }

\* the recorded paths that are absent from the file tree
AbsentExpected ==
    { p \in set_of_file_paths(existing_history) :
         ~ExistsOnDisk(disk, get_relative_file_path(p)) }

NewGeneration == history[Len(history)]

OneMoreGeneration ==
    /\ Len(history) = Len(existing_history) + 1
    /\ SubSeq(history, 1, Len(existing_history)) = existing_history

C2_SealCompleteness ==
    SealEnded
      => /\ not_found_paths = AbsentExpected
         /\ (not_found_paths # {} /\ num_failed_verifications = 0)
               => (outcome = "CompletenessCheckFailed" /\ ExitCode(outcome) = 15)

\* ------------------------------------------------------------------------
\* C3  A seal run that finds both a mismatched file and a missing expected
\*     path ends with completeness failure (exit 15) and lists the missing
\*     paths.
\* ------------------------------------------------------------------------
C3_CompletenessBeforeVerification ==
    (SealEnded /\ num_failed_verifications > 0 /\ AbsentExpected # {})
      => /\ outcome = "CompletenessCheckFailed"
         /\ ExitCode(outcome) = 15
         /\ AbsentExpected \subseteq logged_missing

\* ------------------------------------------------------------------------
\* C4  Tamper detection.
\* ------------------------------------------------------------------------
\* since the previous seal run exactly the content of file f was changed
ChangedExactly(f) ==
    /\ prev_seal.touched = {f}
    /\ prev_seal.disk[f] \in Contents
    /\ disk[f] \in Contents
    /\ prev_seal.disk[f] # disk[f]

DenseNumbers == \A g \in 1..Len(history) : history[g].generation_number = g

RunCommittedOnce ==
    (pc = "done" /\ cmd \in {"seal", "record"} /\ outcome \notin Aborts)
      => OneMoreGeneration

AppendsOnly ==
    history' # history
      => /\ Len(history') = Len(history) + 1
         /\ SubSeq(history', 1, Len(history)) = history

C5_MonotonicGenerations ==
    /\ [](DenseNumbers /\ RunCommittedOnce)
    /\ [][AppendsOnly]_vars

C5_Witness ==
    /\ pc = "done"
    /\ cmd = "record"
    /\ Len(history) = 2
    /\ Len(existing_history) = 1
    /\ history[2].generation_number = 2
    /\ session = <<>>

\* ------------------------------------------------------------------------
\* C6  Check never writes: no step of a check run changes the history,
\*     creates a session entry or commits, and when check ends, however it
\*     ends, the history is the one it loaded.
\* ------------------------------------------------------------------------
CheckStepWritesNothing ==
    (cmd = "check" \/ cmd' = "check")
      => /\ history' = history
         /\ session' = <<>>
         /\ committed' = FALSE

C6_CheckNeverWrites ==
    /\ []((cmd = "check" /\ pc = "done") => (history = existing_history /\ ~committed))
    /\ [][CheckStepWritesNothing]_vars

C6_Witness ==
    /\ pc = "done"
    /\ cmd = "check"
    /\ outcome = "CompletenessCheckFailed"
    /\ logged_missing # {}
    /\ history = existing_history

\* ------------------------------------------------------------------------
\* C7  Check classification and outcome: at the end of a check run, the
\*     files hashed are exactly the files on disk that have an original
\*     entry, each in the format of that entry; the files without original
\*     entry are counted as new and are not hashed; the mismatches counted
\*     are the files whose hash differs from the original entry; every
\*     recorded path absent from disk is in the not-found set; the run ends
\*     with success exactly if there is no mismatch, no new file and no
\*     not-found path.
\* ------------------------------------------------------------------------
OriginalOf(f) ==
    find_original_hash_entry_for_path(existing_history, get_relative_file_path(f))

KnownFilesOnDisk == { f \in FilesOnDisk : OriginalOf(f) # NoEntry }

C7_CheckClassification ==
    CheckEnded
      => /\ hashed = { <<OriginalOf(f).hash_format, f>> : f \in KnownFilesOnDisk }
         /\ num_new_files = Cardinality(FilesOnDisk \ KnownFilesOnDisk)
         /\ failed_paths =
               { f \in KnownFilesOnDisk :
                   OriginalOf(f).hash_string
                     # create_filehash(disk, OriginalOf(f).hash_format, f) }
         /\ num_failed_verifications = Cardinality(failed_paths)
         /\ AbsentExpected \subseteq not_found_paths
         /\ (outcome = "success")
               <=> (num_failed_verifications = 0 /\ num_new_files = 0
                      /\ not_found_paths = {})
         /\ num_new_files > 0 => ExitCode(outcome) # 0

C7_Witness ==
    /\ CheckEnded
    /\ num_new_files > 0
    /\ num_failed_verifications = 0
    /\ \E f \in KnownFilesOnDisk : OriginalOf(f).hash_format = "md5"

\* ------------------------------------------------------------------------
\* C8  Check on a root without prior generation ends with NoMHLHistory as
\*     its first step: nothing is traversed, hashed or counted.
\* ------------------------------------------------------------------------
C8_CheckNoHistory ==
    /\ (cmd = "check" /\ Len(existing_history) = 0)
          => /\ pc = "done"
             /\ outcome = "NoMHLHistory"
             /\ hashed = {}
             /\ traversal = <<>>
             /\ num_new_files = 0
             /\ num_failed_verifications = 0
    /\ outcome = "NoMHLHistory" => (cmd = "check" /\ Len(history) = 0)

C8_Witness ==
    /\ pc = "done"
    /\ cmd = "check"
    /\ outcome = "NoMHLHistory"
    /\ FilesOnDisk # {}

\* ------------------------------------------------------------------------
\* C9  With directory hashes enabled, the generation committed by seal holds
\*     for every visited subdirectory a directory entry with one hash entry,
\*     and its root media hash carries the hash computed for the root.
\* ------------------------------------------------------------------------
HasDirectoryEntry(hash_list, dir, n) ==
    \E i \in 1..Len(hash_list.media_hashes) :
        /\ hash_list.media_hashes[i].path = dir
        /\ hash_list.media_hashes[i].is_directory
        /\ Len(hash_list.media_hashes[i].hash_entries) = n

C9_DirectoryHashesRecorded ==
    (SealEnded /\ directory_hashes)
      => /\ \A dir \in DirsOnDisk : HasDirectoryEntry(NewGeneration, dir, 1)
         /\ Len(NewGeneration.root_media_hash.hash_entries) = 1
         /\ NewGeneration.root_media_hash.hash_entries[1].hash_string
               = dir_hash_mappings[RootPath]

\* ------------------------------------------------------------------------
\* C10 With directory hashes disabled, the generation committed by seal
\*     holds for every visited subdirectory a directory entry with zero hash
\*     entries and a root media hash with zero hash entries; a directory
\*     recorded in the history and removed from disk makes seal list it as
\*     missing and, without mismatch, end with completeness failure.
\* ------------------------------------------------------------------------
RecordedDirs(hash_lists) ==
    { dir \in Dirs : \E g \in 1..Len(hash_lists) :
         \E i \in 1..Len(hash_lists[g].media_hashes) :
            /\ hash_lists[g].media_hashes[i].path = dir
            /\ hash_lists[g].media_hashes[i].is_directory }

C10_DirectoriesRecordedWithoutHashes ==
    (SealEnded /\ ~directory_hashes)
      => /\ \A dir \in DirsOnDisk : HasDirectoryEntry(NewGeneration, dir, 0)
         /\ Len(NewGeneration.root_media_hash.hash_entries) = 0
         /\ \A dir \in RecordedDirs(existing_history) \ DirsOnDisk :
               num_failed_verifications = 0
                 => (outcome = "CompletenessCheckFailed" /\ AbsPath(dir) \in logged_missing)

\* ------------------------------------------------------------------------
\* C11 Cross-format policy: at the end of a seal run, a file that has prior
\*     entries but none in the requested format has two observations in
\*     the session, the first in its first preexisting format and the
\*     second in the requested format, also when the first one disagrees
\*     with the history; every other file has exactly one observation, in
\*     the requested format; the file is counted as failed exactly if one
\*     of its observations disagrees with the history.
\* ------------------------------------------------------------------------
ExistingFormats(f) ==
    find_existing_hash_formats_for_path(existing_history, get_relative_file_path(f))

IsCrossFormat(f) ==
    /\ Len(ExistingFormats(f)) > 0
    /\ \A i \in 1..Len(ExistingFormats(f)) : ExistingFormats(f)[i] # hash_format

Observation(f, fmt) ==
    [hash_format |-> fmt, hash_string |-> create_filehash(disk, fmt, f)]

\* the observation agrees with the earliest entry of its format, if any
Agrees(f, fmt) ==
    LET prior == find_first_hash_entry_for_path(existing_history,
                                                get_relative_file_path(f), fmt)
    IN prior = NoEntry \/ prior.hash_string = create_filehash(disk, fmt, f)

SessionEntries(f) == EntriesInList(session, get_relative_file_path(f), 1)

C11_CrossFormatPolicy ==
    SealEnded
      => \A f \in FilesOnDisk :
            IF IsCrossFormat(f)
              THEN /\ SessionEntries(f) = << Observation(f, ExistingFormats(f)[1]),
                                             Observation(f, hash_format) >>
                   /\ (f \notin failed_paths)
                         <=> (Agrees(f, ExistingFormats(f)[1]) /\ Agrees(f, hash_format))
              ELSE /\ SessionEntries(f) = << Observation(f, hash_format) >>
                   /\ (f \notin failed_paths) <=> Agrees(f, hash_format)

C11_Witness ==
    /\ SealEnded
    /\ \E f \in FilesOnDisk :
          /\ IsCrossFormat(f)
          /\ ~Agrees(f, ExistingFormats(f)[1])
          /\ Len(SessionEntries(f)) = 2
    /\ \E f \in FilesOnDisk : ExistingFormats(f) = <<>>

\* ------------------------------------------------------------------------
\* C12 Unreadable file during seal: a seal run that meets an unreadable
\*     file counts it as one verification failure, goes on with the
\*     remaining files, commits its generation and ends with verification
\*     failure (exit 12), not with an abort before commit.
\* ------------------------------------------------------------------------
UnreadableOnDisk == { f \in FilesOnDisk : ~IsReadable(disk, get_relative_file_path(f)) }

C12_UnreadableCountedAsFailure ==
    (pc = "done" /\ cmd = "seal" /\ UnreadableOnDisk # {} /\ outcome # "KeyError")
      => /\ committed
         /\ OneMoreGeneration
         /\ UnreadableOnDisk \subseteq failed_paths
         /\ \A f \in FilesOnDisk \ UnreadableOnDisk : SessionEntries(f) # <<>>
         /\ outcome = "VerificationFailed"
         /\ ExitCode(outcome) = 12

\* ------------------------------------------------------------------------
\* C13 Record never enforces completeness: every record run processes only
\*     the given files and the files under the given directories, commits
\*     one generation and ends with success or verification failure (exit
\*     0 or 12), whatever recorded paths are absent or not listed.
\* ------------------------------------------------------------------------
IsPrefix(a, b) == Len(a) <= Len(b) /\ SubSeq(b, 1, Len(a)) = a

UnderGivenPaths(file_path) == \E i \in 1..Len(paths) : IsPrefix(paths[i], file_path)

C13_RecordNoCompleteness ==
    (pc = "done" /\ cmd = "record")
      => /\ \A i \in 1..Len(session) : UnderGivenPaths(AbsPath(session[i].path))
         /\ \A h \in hashed : UnderGivenPaths(h[2])
         /\ OneMoreGeneration
         /\ outcome \in {"success", "VerificationFailed"}
         /\ ExitCode(outcome) \in {0, 12}

\* ------------------------------------------------------------------------
\* C14 Expected paths persist: a path recorded in some generation of the
\*     history and absent from the file tree makes every seal run end with
\*     completeness failure and be listed as missing, whatever generations
\*     were committed since it was recorded.
\* ------------------------------------------------------------------------
RecordedInSomeGeneration(p) ==
    \E g \in 1..Len(existing_history) :
        get_relative_file_path(p) \in RecordedPaths(existing_history[g])

C14_ExpectedPathsPersist ==
    (pc = "done" /\ cmd = "seal")
      => \A f \in { AbsPath(g) : g \in Files } :
            (RecordedInSomeGeneration(f) /\ ~ExistsOnDisk(disk, get_relative_file_path(f)))
              => /\ outcome = "CompletenessCheckFailed"
                 /\ f \in logged_missing

\* ------------------------------------------------------------------------
\* C15 Determinism: a seal run on the tree the previous seal run saw, with
\*     the same hash format and the same directory-hash setting, ends with
\*     success (no mismatch, no missing path), and its generation holds for
\*     every file the same hash value as the generation of the previous
\*     seal; the directory hashes it computes are those the previous seal
\*     computed.  As stated, for any previous seal; as checked, for a
\*     previous seal that ended with success.
\* ------------------------------------------------------------------------
SameTreeResealed ==
    /\ SealEnded
    /\ prev_seal.outcome # "none"
    /\ prev_seal.generation > 0
    /\ prev_seal.touched = {}
    /\ prev_seal.hash_format = hash_format
    /\ prev_seal.directory_hashes = directory_hashes

\* the values a generation records for a path in a format
ValuesIn(generation, rel, fmt) ==
    LET es == EntriesInList(generation.media_hashes, rel, 1)
    IN { es[i].hash_string : i \in { j \in 1..Len(es) : es[j].hash_format = fmt } }

SameFileValues ==
    \A f \in FilesOnDisk :
        LET rel == get_relative_file_path(f)
            first == history[prev_seal.generation]
            second == NewGeneration
        IN /\ ValuesIn(second, rel, hash_format) = {create_filehash(disk, hash_format, f)}
           /\ ValuesIn(second, rel, hash_format) = ValuesIn(first, rel, hash_format)
           /\ \A fmt \in ascmhl_supported_hashformats :
                 ValuesIn(second, rel, fmt) \subseteq ValuesIn(first, rel, fmt)

SameDirectoryValues ==
    /\ computed_dir_hashes = prev_seal.dir_hashes
    /\ directory_hashes
         => DOMAIN computed_dir_hashes = {RootPath} \cup { AbsPath(dir) : dir \in DirsOnDisk }

SecondSealAgrees ==
    /\ outcome = "success"
    /\ num_failed_verifications = 0
    /\ not_found_paths = {}
    /\ SameFileValues
    /\ SameDirectoryValues

RenamedSinceSeal(old, new) ==
    /\ prev_seal.outcome # "none"
    /\ prev_seal.generation > 0
    /\ prev_seal.touched = {old, new}
    /\ prev_seal.disk[old] \in Contents
    /\ prev_seal.disk[new] = "absent"
    /\ disk[old] = "absent"
    /\ disk[new] = prev_seal.disk[old]

C16_RenameDetection ==
    \A pair \in RenamePairs :
        LET old == pair[1]
            new == pair[2]
            parent == AbsPath(Parent(new))
        IN (SealEnded /\ RenamedSinceSeal(old, new))
             => /\ AbsPath(old) \in logged_missing
                /\ outcome = "CompletenessCheckFailed"
                /\ ExitCode(outcome) = 15
                /\ SessionEntries(AbsPath(new)) = << Observation(AbsPath(new), hash_format) >>
                /\ AbsPath(new) \notin failed_paths
                /\ (directory_hashes /\ prev_seal.directory_hashes
                      /\ prev_seal.hash_format = hash_format)
                     => computed_dir_hashes[parent] # prev_seal.dir_hashes[parent]

\* ------------------------------------------------------------------------
\* C17 Directory-hash composition: with directory hashes enabled, the hash
\*     a seal run computes for a directory is the digest of what its
\*     immediate children feed in lexicographic name order, each child its
\*     hash followed by its name: a file its hash in the requested format,
\*     a directory its own finalized hash.  A directory without children
\*     gets the digest of the empty input; a directory holding only empty
\*     directories gets a digest made of the empty digest and their names.
\* ------------------------------------------------------------------------
EmptyDigest(fmt) == <<fmt>>

RECURSIVE DirectoryDigest(_, _, _)
RECURSIVE FedBy(_, _, _, _, _)
\* what the children from the i-th on feed into the context of their folder
FedBy(d, fmt, rel, children, i) ==
    IF i > Len(children) THEN <<>>
    ELSE LET child == rel \o <<children[i].item_name>>
             child_hash == IF children[i].is_dir
                             THEN DirectoryDigest(d, fmt, child)
                             ELSE <<fmt, d[child]>>
         IN child_hash \o <<children[i].item_name>> \o FedBy(d, fmt, rel, children, i + 1)

DirectoryDigest(d, fmt, rel) == <<fmt>> \o FedBy(d, fmt, rel, ChildrenFrom(d, rel, 1), 1)

ChildrenOnDisk(rel) == ChildrenFrom(disk, rel, 1)

HoldsOnlyEmptyDirectories(rel) ==
    /\ Len(ChildrenOnDisk(rel)) > 0
    /\ \A i \in 1..Len(ChildrenOnDisk(rel)) :
          /\ ChildrenOnDisk(rel)[i].is_dir
          /\ ChildrenOnDisk(rel \o <<ChildrenOnDisk(rel)[i].item_name>>) = <<>>

RECURSIVE EmptyDigestsAndNames(_, _, _)
EmptyDigestsAndNames(fmt, children, i) ==
    IF i > Len(children) THEN <<>>
    ELSE EmptyDigest(fmt) \o <<children[i].item_name>>
           \o EmptyDigestsAndNames(fmt, children, i + 1)

C17_DirectoryHashComposition ==
    (SealEnded /\ directory_hashes)
      => /\ DOMAIN computed_dir_hashes = {RootPath} \cup { AbsPath(dir) : dir \in DirsOnDisk }
         /\ \A dir \in {<<>>} \cup DirsOnDisk :
               LET computed == computed_dir_hashes[AbsPath(dir)]
               IN /\ computed = DirectoryDigest(disk, hash_format, dir)
                  /\ ChildrenOnDisk(dir) = <<>> => computed = EmptyDigest(hash_format)
                  /\ HoldsOnlyEmptyDirectories(dir)
                       => /\ computed # EmptyDigest(hash_format)
                          /\ computed = <<hash_format>>
                                \o EmptyDigestsAndNames(hash_format, ChildrenOnDisk(dir), 1)

C17_Witness ==
    /\ SealEnded
    /\ directory_hashes
    /\ HoldsOnlyEmptyDirectories(<<"E">>)
    /\ computed_dir_hashes[AbsPath(<<"E", "EA">>)] = EmptyDigest(hash_format)
    /\ \E i \in 1..Len(ChildrenOnDisk(<<"A">>)) : ~ChildrenOnDisk(<<"A">>)[i].is_dir
    /\ Len(ChildrenOnDisk(<<>>)) = 3

\* ------------------------------------------------------------------------
\* C18 Child directory without mapping entry: a seal run with directory
\*     hashes enabled that meets a child directory the traversal did not
\*     yield (the root of a nested history) skips it: the run does not
\*     fail for it, nothing is fed for it into the hash of its parent, the
\*     other children are processed and the generation is committed.
\* ------------------------------------------------------------------------
NestedRootsOnDisk == { dir \in Dirs : IsNestedHistoryRoot(disk, dir) }

\* the children of a folder without the roots of nested histories
RECURSIVE YieldedChildren(_, _, _)
YieldedChildren(rel, children, i) ==
    IF i > Len(children) THEN <<>>
    ELSE (IF IsNestedHistoryRoot(disk, rel \o <<children[i].item_name>>)
            THEN <<>> ELSE <<children[i]>>)
           \o YieldedChildren(rel, children, i + 1)

C18_MissingMappingSkipped ==
    (pc = "done" /\ cmd = "seal" /\ directory_hashes
       /\ NestedRootsOnDisk # {} /\ UnreadableOnDisk = {})
      => /\ outcome \notin Aborts
         /\ committed
         /\ OneMoreGeneration
         /\ \A f \in FilesOnDisk : SessionEntries(f) # <<>>
         /\ \A dir \in NestedRootsOnDisk :
               /\ AbsPath(dir) \notin DOMAIN computed_dir_hashes
               /\ AbsPath(Parent(dir)) \in DOMAIN computed_dir_hashes
               /\ computed_dir_hashes[AbsPath(Parent(dir))]
                    = <<hash_format>>
                        \o FedBy(disk, hash_format, Parent(dir),
                                 YieldedChildren(Parent(dir), ChildrenOnDisk(Parent(dir)), 1), 1)

\* ------------------------------------------------------------------------
\* C19 Mismatches are accumulated: a seal or record run in which the
\*     per-file seal of some file returned false has, when it ends, hashed
\*     and appended every file of its traversal, in the order of the
\*     traversal; its failure counter is the number of files whose per-file
\*     seal returned false, and the session holds the observation of each
\*     of these files.
\* ------------------------------------------------------------------------
RECURSIVE FilesUnderPaths(_, _)
FilesUnderPaths(given, i) ==
    IF i > Len(given) THEN <<>>
    ELSE LET rel == get_relative_file_path(given[i])
         IN (IF IsDirOnDisk(disk, rel)
               THEN FilesOfTraversal(post_order_lexicographic(disk, rel))
               ELSE <<given[i]>>) \o FilesUnderPaths(given, i + 1)

FilesOfRun ==
    IF cmd = "seal" THEN FilesOfTraversal(post_order_lexicographic(disk, <<>>))
    ELSE FilesUnderPaths(paths, 1)

C19_MismatchesAccumulated ==
    (pc = "done" /\ cmd \in {"seal", "record"} /\ failed_paths # {})
      => /\ [i \in 1..Len(session) |-> AbsPath(session[i].path)] = FilesOfRun
         /\ \A i \in 1..Len(FilesOfRun) : <<hash_format, FilesOfRun[i]>> \in hashed
         /\ num_failed_verifications = Cardinality(failed_paths)
         /\ \A f \in failed_paths :
               \E i \in 1..Len(SessionEntries(f)) :
                   LET e == SessionEntries(f)[i]
                   IN /\ e = Observation(f, e.hash_format)
                      /\ ~Agrees(f, e.hash_format)

\* ------------------------------------------------------------------------
\* C20 No write before commit: during a seal or record run the persisted
\*     history changes in one step only, the commit that follows the end
\*     of the traversal; until then, and in a run that an exception stops
\*     before its commit, the history is the one the run loaded.
\* ------------------------------------------------------------------------
WritesOnlyAtCommit ==
    (cmd \in {"seal", "record"} \/ cmd' \in {"seal", "record"})
      => \/ history' = history
         \/ /\ pc = "traverse" /\ pc' = "finish"
            /\ traversal = <<>> /\ remaining_paths = <<>>
            /\ ~committed /\ committed'
            /\ history = existing_history

UnwrittenBeforeCommit ==
    (cmd \in {"seal", "record"} /\ (~committed \/ outcome \in Aborts))
      => (history = existing_history /\ ~committed)

C20_NoWriteBeforeCommit ==
    /\ []UnwrittenBeforeCommit
    /\ [][WritesOnlyAtCommit]_vars

C20_Witness ==
    /\ pc = "done"
    /\ cmd \in {"seal", "record"}
    /\ outcome \in Aborts
    /\ session # <<>>
    /\ history = existing_history

\* ------------------------------------------------------------------------
\* C21 The path-to-hash mapping of a seal run with directory hashes
\*     enabled: when a directory is about to be visited the mapping holds
\*     an entry for each of its child directories the traversal yielded;
\*     the mapping holds exactly the visited directories whose parent is
\*     not visited yet, so an entry is removed once, by the visit of its
\*     parent, and never comes back; when the traversal has ended the
\*     mapping holds the entry of the root directory and no other.
\* ------------------------------------------------------------------------
SealWithDirectoryHashes ==
    cmd = "seal" /\ directory_hashes /\ pc # "idle" /\ outcome \notin Aborts

VisitedFolders == DOMAIN computed_dir_hashes

AbsParent(file_path) == SubSeq(file_path, 1, Len(file_path) - 1)

\* the child directories of a folder that the traversal yields as folders
YieldedChildDirectories(folder_path) ==
    LET rel == get_relative_file_path(folder_path)
    IN { AbsPath(dir) : dir \in { e \in Dirs : /\ Parent(e) = rel
                                               /\ IsDirOnDisk(disk, e)
                                               /\ ~IsNestedHistoryRoot(disk, e) } }

MappingInvariant ==
    SealWithDirectoryHashes
      => /\ DOMAIN dir_hash_mappings
              = { p \in VisitedFolders : p = RootPath \/ AbsParent(p) \notin VisitedFolders }
         /\ \A p \in DOMAIN dir_hash_mappings : dir_hash_mappings[p] = computed_dir_hashes[p]
         /\ (pc = "traverse" /\ traversal # <<>>)
               => YieldedChildDirectories(Head(traversal).folder_path)
                     \subseteq DOMAIN dir_hash_mappings
         /\ traversal = <<>> => DOMAIN dir_hash_mappings = {RootPath}

MappingStep ==
    (SealWithDirectoryHashes /\ cmd' = "seal")
      => /\ \A k \in DOMAIN dir_hash_mappings \ DOMAIN dir_hash_mappings' :
               /\ pc = "traverse" /\ traversal # <<>>
               /\ Head(traversal).folder_path = AbsParent(k)
         /\ \A k \in DOMAIN dir_hash_mappings' \ DOMAIN dir_hash_mappings :
               /\ pc = "traverse" /\ traversal # <<>>
               /\ Head(traversal).folder_path = k
               /\ k \notin VisitedFolders

C21_MappingInvariant ==
    /\ []MappingInvariant
    /\ [][MappingStep]_vars

C21_Witness ==
    /\ SealEnded
    /\ directory_hashes
    /\ DOMAIN dir_hash_mappings = {RootPath}
    /\ Cardinality(VisitedFolders) >= 4

====
